---- MODULE Spec2Model ----
(***************************************************************************)
(* Model of the LaTeX translator core:                                     *)
(*   src/src/parser.py      mask_content / unmask_content                  *)
(*   src/src/translator.py  smart_split, the translate/critic/fixer graph  *)
(*                          and translate_file_content                     *)
(*   src/src/walker.py      resolve_path, walk_and_process                 *)
(* Text is a sequence of one-character strings.                            *)
(***************************************************************************)
EXTENDS Integers, Sequences, FiniteSets, TLC

VARIABLES
    \* --- parser.py: one mask_content / unmask_content round ---
    text,            \* the document text handed to mask_content
    nodes,           \* the node list LatexWalker.get_latex_nodes() yields for text
    parse_ok,        \* FALSE when parsing or traversal raises (lines 68-72, 187)
    masked_text,     \* mask_content(text)[0]
    masks,           \* mask_content(text)[1]: insertion-ordered dict, <<[token, original]>>
    final_text,      \* unmask_content(masked_text, masks)
    mphase,          \* "idle" | "input" -> "masked" -> "unmasked"
    \* --- translator.py: one smart_split call ---
    split_text,      \* smart_split's text
    max_chars,       \* smart_split's max_chars
    split_chunks,    \* the list smart_split returns
    sphase,          \* "idle" | "input" -> "split"
    \* --- translator.py: one translate_file_content call ---
    masked_content,     \* the argument
    chunks,             \* smart_split(masked_content)
    idx,                \* 1-based position of the for loop (i + 1)
    translated_chunks,  \* the results appended so far
    state,              \* the TranslationState of the graph run in progress
    graph_node,         \* the graph node to run next: translate, critic, fixer, END
    steps,              \* nodes the graph run in progress has executed
    pc,                 \* "idle" | "call" -> "loop" <-> "graph" -> "returned" | "raised"
    output,             \* the value translate_file_content returns
    \* --- history of that call ---
    last_critic,        \* the response the latest critic_node run got
    cur,                \* the service calls of the graph run in progress
    handled,            \* per chunk handled, in the order the results were
                        \* appended: [chunk_index, result, entered, failed]
    outage,             \* every translation call so far raised
    clean,              \* every translation so far came back unchanged and
                        \* every critique so far passed
    \* --- walker.py: one walk_and_process call ---
    entry_file,         \* the entry_file argument (a file is known by its path)
    entry_exists,       \* does entry_file exist on disk
    visited,            \* the visited set
    wstack,             \* the dfs calls in progress, innermost last:
                        \* [path, at, taken]; at is "call" -> "process" ->
                        \* "children" -> "includes", taken the includes done
    wpc,                \* "idle" | "walk" -> "done" | "raised"
    \* --- history of that call ---
    calls,              \* the paths process_callback was invoked with, in order
    failed,             \* the paths whose process_callback raised
    included,           \* the paths resolve_path returned so far
    scanned             \* the paths whose for loop over the includes ran to its end

maskVars  == <<text, nodes, parse_ok, masked_text, masks, final_text, mphase>>
splitVars == <<split_text, max_chars, split_chunks, sphase>>
pipeVars  == <<masked_content, chunks, idx, translated_chunks, state, graph_node, steps,
               pc, output, last_critic, cur, handled, outage, clean>>
walkVars  == <<entry_file, entry_exists, visited, wstack, wpc,
               calls, failed, included, scanned>>
vars == <<maskVars, splitVars, pipeVars, walkVars>>

(***************************************************************************)
(* Bounds of the model.                                                    *)
(***************************************************************************)
MaxNodes == 3        \* top-level nodes of a generated document
MaxRawLen == 6       \* characters of a text the parser gives up on
MaxSplitLen == 7     \* characters of a text handed to smart_split on its own
MaxMaxChars == 4     \* largest max_chars handed to smart_split on its own
MaxFileLen == 5      \* characters of a masked text handed to translate_file_content
NumFiles == 3        \* .tex files of the project the walker runs over
MaxIncludes == 2     \* \input / \include commands found in one file
ChunkChars == 3      \* max_chars of translate_file_content's smart_split call: the
                     \* code's default is 4000, scaled down to the texts above

(***************************************************************************)
(* Strings as character sequences.                                         *)
(***************************************************************************)
Min(a, b) == IF a < b THEN a ELSE b
Max(a, b) == IF a > b THEN a ELSE b

NL == "\n"
BS == "\\"

\* "".join(parts)
RECURSIVE Join(_)
Join(parts) == IF parts = <<>> THEN <<>> ELSE Head(parts) \o Join(Tail(parts))

\* text[start:end] with Python's clamping of slice indices (0-based, end exclusive)
Slice(s, start, end) ==
    LET a == Min(Max(start, 0), Len(s))
        b == Min(Max(end, 0), Len(s))
    IN  IF b <= a THEN <<>> ELSE SubSeq(s, a + 1, b)

LowerCase == <<"a","b","c","d","e","f","g","h","i","j","k","l","m",
               "n","o","p","q","r","s","t","u","v","w","x","y","z">>
UpperCase == <<"A","B","C","D","E","F","G","H","I","J","K","L","M",
               "N","O","P","Q","R","S","T","U","V","W","X","Y","Z">>

\* str.upper()
upper(s) ==
    [i \in 1..Len(s) |->
        IF \E k \in 1..26 : LowerCase[k] = s[i]
        THEN UpperCase[CHOOSE k \in 1..26 : LowerCase[k] = s[i]]
        ELSE s[i]]

\* str.replace(old, new) for a one-character old
replace_char(s, old, new) ==
    Join([i \in 1..Len(s) |-> IF s[i] = old THEN new ELSE <<s[i]>>])

\* s.startswith(p) at 1-based index i
MatchAt(s, i, p) ==
    /\ i + Len(p) - 1 <= Len(s)
    /\ \A k \in 1..Len(p) : s[i + k - 1] = p[k]

\* p in s
Contains(s, p) == \E i \in 1..(Len(s) - Len(p) + 1) : MatchAt(s, i, p)

SetMin(S) == CHOOSE x \in S : \A y \in S : x <= y

\* the 1-based starts of the occurrences of p that str.count and str.replace
\* take in s from index `from` on: leftmost first, non-overlapping
\* (p is never empty here: a token has at least 12 characters)
RECURSIVE Occurrences(_, _, _)
Occurrences(s, from, p) ==
    LET M == {i \in from..(Len(s) - Len(p) + 1) : MatchAt(s, i, p)}
    IN  IF M = {} THEN <<>>
        ELSE <<SetMin(M)>> \o Occurrences(s, SetMin(M) + Len(p), p)

\* s.count(p)
Count(s, p) == Len(Occurrences(s, 1, p))

\* s.replace(old, new)
str_replace(s, old, new) ==
    LET occ == Occurrences(s, 1, old)
        n   == Len(occ)
        \* the text between occurrence k-1 and occurrence k (k = n+1: the rest)
        Gap(k) == SubSeq(s, IF k = 1 THEN 1 ELSE occ[k - 1] + Len(old),
                            IF k = n + 1 THEN Len(s) ELSE occ[k] - 1)
    IN  Join([k \in 1..(2 * n + 1) |->
                IF k % 2 = 1 THEN Gap((k + 1) \div 2) ELSE new])

(***************************************************************************)
(* Mask tokens: f"[MASK_{type_hint}_{mask_counter:04d}]"                    *)
(***************************************************************************)
DigitChars == <<"0","1","2","3","4","5","6","7","8","9">>

RECURSIVE Digits(_)
Digits(n) ==
    IF n < 10 THEN <<DigitChars[n + 1]>>
    ELSE Digits(n \div 10) \o <<DigitChars[(n % 10) + 1]>>

\* format(n, "04d"): zero-padded to a width of at least 4
Format04d(n) ==
    LET d == Digits(n)
    IN  [i \in 1..(IF Len(d) < 4 THEN 4 - Len(d) ELSE 0) |-> "0"] \o d

\* the token without its counter
MaskToken_NoCounter(type_hint, mask_counter) ==
    <<"[","M","A","S","K","_">> \o type_hint \o <<"_">> \o Format04d(0) \o <<"]">>

MaskToken(type_hint, mask_counter) ==
    <<"[","M","A","S","K","_">> \o type_hint \o <<"_">>
        \o Format04d(mask_counter) \o <<"]">>

(***************************************************************************)
(* translator.py, smart_split, lines 37-62                                 *)
(***************************************************************************)
\* re.split(r'(\n\n+)', text) from 1-based index `from` on: the pieces between
\* the maximal runs of two or more newlines, and the runs themselves
RECURSIVE re_split(_, _)
re_split(s, from) ==
    LET starts == {a \in from..(Len(s) - 1) : s[a] = NL /\ s[a + 1] = NL}
    IN  IF starts = {} THEN <<SubSeq(s, from, Len(s))>>
        ELSE LET a == SetMin(starts)
                 b == SetMin({e \in (a + 1)..Len(s) : e = Len(s) \/ s[e + 1] # NL})
             IN  <<SubSeq(s, from, a - 1), SubSeq(s, a, b)>> \o re_split(s, b + 1)

\* re.split without the capturing group: the separators are not returned
Paragraphs_NoCapture(txt) ==
    LET ps == re_split(txt, 1)
    IN  [k \in 1..((Len(ps) + 1) \div 2) |-> ps[2 * k - 1]]

\* line 42: paragraphs = re.split(r'(\n\n+)', text)
Paragraphs(txt) == re_split(txt, 1)

\* the loop closing the running chunk already when the next piece would fill
\* it to max_chars
RECURSIVE SplitLoop_CloseAtLimit(_, _, _, _, _)
SplitLoop_CloseAtLimit(paragraphs, chunks_, current_chunk, current_length, max) ==
    IF paragraphs = <<>>
    THEN IF current_chunk # <<>> THEN Append(chunks_, Join(current_chunk)) ELSE chunks_
    ELSE
      LET para == Head(paragraphs)
      IN  IF current_length + Len(para) >= max /\ current_chunk # <<>>
          THEN SplitLoop_CloseAtLimit(Tail(paragraphs), Append(chunks_, Join(current_chunk)),
                                      <<para>>, Len(para), max)
          ELSE SplitLoop_CloseAtLimit(Tail(paragraphs), chunks_, Append(current_chunk, para),
                                      current_length + Len(para), max)

\* the loop of lines 48-57 and the flush of lines 59-60
RECURSIVE SplitLoop(_, _, _, _, _)
SplitLoop(paragraphs, chunks_, current_chunk, current_length, max) ==
    IF paragraphs = <<>>
    THEN IF current_chunk # <<>> THEN Append(chunks_, Join(current_chunk)) ELSE chunks_
    ELSE
      LET para == Head(paragraphs)
      IN  IF current_length + Len(para) > max /\ current_chunk # <<>>
          THEN SplitLoop(Tail(paragraphs), Append(chunks_, Join(current_chunk)),
                         <<para>>, Len(para), max)
          ELSE SplitLoop(Tail(paragraphs), chunks_, Append(current_chunk, para),
                         current_length + Len(para), max)

smart_split(txt, max) == SplitLoop(Paragraphs(txt), <<>>, <<>>, 0, max)

SplitIdle ==
    /\ split_text = <<>> /\ max_chars = 0 /\ split_chunks = <<>> /\ sphase = "idle"

(***************************************************************************)
(* translator.py: the graph nodes, lines 66-191                            *)
(***************************************************************************)
MAX_FAILURES == 3            \* fixer_node: if failures > 3
TRANSLATE_FAILED == 999      \* translate_node's failed_attempts on an error
RecursionLimit == 25         \* nodes one app.invoke may run before the graph
                             \* runtime raises GraphRecursionError (its default)

WHITESPACE == {" ", NL, "\t", "\r"}
SetMax(S) == CHOOSE x \in S : \A y \in S : y <= x

\* str.strip()
strip(s) ==
    LET keep == {i \in 1..Len(s) : s[i] \notin WHITESPACE}
    IN  IF keep = {} THEN <<>> ELSE SubSeq(s, SetMin(keep), SetMax(keep))

\* lines 237-242: initial_state (translated_chunk is not set yet)
initial_state(chunk, i) ==
    [original_chunk |-> chunk, chunk_index |-> i, translated_chunk |-> <<>>,
     failed_attempts |-> 0, critic_errors |-> <<>>]

\* translate_node(state) when llm.invoke answers resp: [kind, content]
translate_node(st, resp) ==
    IF resp.kind = "ok"
    THEN [st EXCEPT !.translated_chunk = strip(resp.content),
                    !.failed_attempts = 0]
    ELSE [st EXCEPT !.translated_chunk = st.original_chunk,
                    !.failed_attempts = TRANSLATE_FAILED,
                    !.critic_errors = <<"LLM Call Failed">>]

\* result.get(key, False) and its truth value
Truthy(field) == field = "true"

\* critic_node that lets the chunk through when the critique cannot be read
critic_node_FailOpen(st, resp) ==
    IF resp.kind = "json"
          /\ (~Truthy(resp.safe) \/ ~Truthy(resp.syntax_valid) \/ ~Truthy(resp.quality_pass))
          /\ resp.errors # "null"
    THEN [st EXCEPT !.critic_errors =
             IF resp.errors = "some" THEN <<"reported error">> ELSE <<"Unknown failure">>]
    ELSE [st EXCEPT !.critic_errors = <<>>]

\* critic_node(state) when chain.invoke answers resp:
\*   kind "raise": the call raised;  kind "unparseable": json.loads (or the
\*   .get calls, on a value that is no object) raised;  kind "json": an object
\*   whose fields are "true", "false" or "missing" and whose errors are
\*   "missing", "null", "empty" or "some"
critic_node(st, resp) ==
    IF resp.kind # "json"
    THEN [st EXCEPT !.critic_errors = <<"Critic parsing failed">>]
    ELSE IF Truthy(resp.safe) /\ Truthy(resp.syntax_valid) /\ Truthy(resp.quality_pass)
    THEN [st EXCEPT !.critic_errors = <<>>]
    ELSE IF resp.errors = "some"
    THEN [st EXCEPT !.critic_errors = <<"reported error">>]
    ELSE IF resp.errors = "null"                \* None.append raises, caught
    THEN [st EXCEPT !.critic_errors = <<"Critic parsing failed">>]
    ELSE [st EXCEPT !.critic_errors = <<"Unknown failure">>]

\* fixer_node without the cap: every run asks the repair service
fixer_node_NoCap(st, resp) ==
    IF resp.kind = "ok"
    THEN [st EXCEPT !.translated_chunk = strip(resp.content),
                    !.failed_attempts = st.failed_attempts + 1]
    ELSE [st EXCEPT !.failed_attempts = st.failed_attempts + 1]

\* fixer_node that gives the translation up when the repair call raises
fixer_node_RaiseReverts(st, resp) ==
    LET failures == st.failed_attempts + 1
    IN  IF failures > MAX_FAILURES \/ resp.kind # "ok"
        THEN [st EXCEPT !.translated_chunk = st.original_chunk,
                        !.failed_attempts = failures,
                        !.critic_errors = <<>>]
        ELSE [st EXCEPT !.translated_chunk = strip(resp.content),
                        !.failed_attempts = failures]

\* fixer_node(state) when chain.invoke (if reached) answers resp: [kind, content]
fixer_node(st, resp) ==
    LET failures == st.failed_attempts + 1
    IN  IF failures > MAX_FAILURES
        THEN [st EXCEPT !.translated_chunk = st.original_chunk,
                        !.failed_attempts = failures,
                        !.critic_errors = <<>>]
        ELSE IF resp.kind = "ok"
        THEN [st EXCEPT !.translated_chunk = strip(resp.content),
                        !.failed_attempts = failures]
        ELSE [st EXCEPT !.failed_attempts = failures]

\* does this fixer_node run call the repair service
FixerCalls(st) == st.failed_attempts + 1 <= MAX_FAILURES

check_critic(st) == IF st.critic_errors = <<>> THEN "pass" ELSE "fail"

\* the conditional edge with its two targets swapped
AfterCritic_Swapped(st) == IF check_critic(st) = "pass" THEN "fixer" ELSE "END"

\* the conditional edge of lines 205-212
AfterCritic(st) == IF check_critic(st) = "pass" THEN "END" ELSE "fixer"

(***************************************************************************)
(* What the three services may answer.                                     *)
(***************************************************************************)
\* a translation of the prose that keeps every other character
Translated(chunk) == [k \in 1..Len(chunk) |-> IF chunk[k] = "a" THEN "b" ELSE chunk[k]]

TextResponses(chunk) ==
    {[kind |-> "ok", content |-> chunk],
     [kind |-> "ok", content |-> Translated(chunk)],
     [kind |-> "raise", content |-> <<>>]}

NoResponse == [kind |-> "none", safe |-> "missing", syntax_valid |-> "missing",
               quality_pass |-> "missing", errors |-> "missing"]

CriticResponses ==
    {[NoResponse EXCEPT !.kind = "raise"], [NoResponse EXCEPT !.kind = "unparseable"]}
      \cup [kind : {"json"},
            safe : {"true", "false", "missing"},
            syntax_valid : {"true", "false", "missing"},
            quality_pass : {"true", "false", "missing"},
            errors : {"missing", "null", "empty", "some"}]

NoCalls == [translate |-> "none", translate_calls |-> 0,
            critic_calls |-> 0, critic_fails |-> 0,
            fixer_runs |-> 0, fixer_calls |-> 0, fixer_raised |-> 0]

PipeIdle ==
    /\ masked_content = <<>> /\ chunks = <<>> /\ idx = 0 /\ translated_chunks = <<>>
    /\ state = initial_state(<<>>, 0) /\ graph_node = "none" /\ steps = 0
    /\ pc = "idle" /\ output = <<>>
    /\ last_critic = NoResponse /\ cur = NoCalls
    /\ handled = <<>> /\ outage = TRUE /\ clean = TRUE

(***************************************************************************)
(* walker.py: resolve_path and the try/except of dfs.  A file is known by  *)
(* its normalised path, 1..NumFiles; None is 0.                            *)
(***************************************************************************)
Files == 1..NumFiles
None == 0

\* What the file system answers for one include text, seen from the file that
\* holds it: the file os.path.normpath(os.path.join(current_dir, candidate))
\* names if it exists, and the one os.path.join(base_dir, candidate) names if
\* it exists (None where os.path.exists is false).
IncludeTexts == [from_current : Files \cup {None}, from_root : Files \cup {None}]

\* resolve_path(base_dir, current_file, relative_path), lines 24-35
resolve_path(inc) ==
    IF inc.from_current # None THEN inc.from_current
    ELSE IF inc.from_root # None THEN inc.from_root
    ELSE None

\* lines 92-95 with the exception let through
after_callback_Propagate(outcome) == IF outcome = "raise" THEN "raised" ELSE "children"

\* lines 92-95: where dfs goes on after process_callback returned or raised
after_callback(outcome) == "children"

WalkIdle ==
    /\ entry_file = None /\ entry_exists = FALSE /\ visited = {} /\ wstack = <<>>
    /\ wpc = "idle"
    /\ calls = <<>> /\ failed = {} /\ included = {} /\ scanned = {}

(***************************************************************************)
(* The parse tree.  A node is [kind, name, open, nodelist, close]:          *)
(* its source text is open \o (sources of nodelist) \o close, its pos is    *)
(* the 0-based offset of that source in the text and its len the length.    *)
(*   kind "chars" : LatexCharsNode       (open is the text)                 *)
(*   kind "math"  : LatexMathNode        (open is the whole region)         *)
(*   kind "macro" : LatexMacroNode       (open is the whole invocation)     *)
(*   kind "group" : LatexGroupNode       ({ nodelist })                     *)
(*   kind "env"   : LatexEnvironmentNode (\begin{name}.. nodelist \end{..}) *)
(***************************************************************************)
CharsNode(s)     == [kind |-> "chars", name |-> <<>>, open |-> s, nodelist |-> <<>>, close |-> <<>>]
MathNode(s)      == [kind |-> "math",  name |-> <<>>, open |-> s, nodelist |-> <<>>, close |-> <<>>]
MacroNode(n, s)  == [kind |-> "macro", name |-> n,    open |-> s, nodelist |-> <<>>, close |-> <<>>]
\* a macro whose arguments the walker parsed into nodes: for kind "macro" the
\* nodelist field holds nodeargd.argnlist, which is no `nodelist` attribute
MacroArgsNode(n, argnlist) ==
    [kind |-> "macro", name |-> n, open |-> <<BS>> \o n, nodelist |-> argnlist, close |-> <<>>]
GroupNode(kids)  == [kind |-> "group", name |-> <<>>, open |-> <<"{">>, nodelist |-> kids, close |-> <<"}">>]
EnvNode(n, args, kids) ==
    [kind |-> "env", name |-> n,
     open |-> <<BS,"b","e","g","i","n","{">> \o n \o <<"}">> \o args,
     nodelist |-> kids,
     close |-> <<BS,"e","n","d","{">> \o n \o <<"}">>]

RECURSIVE NodeSource(_)
NodeSource(node) ==
    node.open
      \o Join([i \in 1..Len(node.nodelist) |-> NodeSource(node.nodelist[i])])
      \o node.close

\* the text a node list was parsed from
Render(node_list) == Join([i \in 1..Len(node_list) |-> NodeSource(node_list[i])])

\* hasattr(node, 'nodelist'): groups and environments (math nodes never get here)
HasNodelist(node) == node.kind \in {"group", "env", "math"}

(***************************************************************************)
(* parser.py, mask_content: configuration sets                             *)
(***************************************************************************)
n_cite     == <<"c","i","t","e">>
n_ref      == <<"r","e","f">>
n_cref     == <<"c","r","e","f">>
n_label    == <<"l","a","b","e","l">>
n_input    == <<"i","n","p","u","t">>
n_include  == <<"i","n","c","l","u","d","e">>
n_includegraphics == <<"i","n","c","l","u","d","e","g","r","a","p","h","i","c","s">>
MASKED_MACROS == {n_cite, n_ref, n_cref, n_label, n_input, n_include, n_includegraphics}

n_equation    == <<"e","q","u","a","t","i","o","n">>
n_align       == <<"a","l","i","g","n">>
n_gather      == <<"g","a","t","h","e","r">>
n_eqnarray    == <<"e","q","n","a","r","r","a","y">>
n_tabular     == <<"t","a","b","u","l","a","r">>
n_tikzpicture == <<"t","i","k","z","p","i","c","t","u","r","e">>
n_axuodraw    == <<"a","x","u","o","d","r","a","w">>
n_algorithmic == <<"a","l","g","o","r","i","t","h","m","i","c">>
OPAQUE_ENVS == {n_equation, n_align, n_gather, n_eqnarray, n_tabular,
                n_tikzpicture, n_axuodraw, n_algorithmic}

n_lstlisting == <<"l","s","t","l","i","s","t","i","n","g">>
n_verbatim   == <<"v","e","r","b","a","t","i","m">>
n_minted     == <<"m","i","n","t","e","d">>
CODE_ENVS == {n_lstlisting, n_verbatim, n_minted}

n_section == <<"s","e","c","t","i","o","n">>

n_figure_star == <<"f","i","g","u","r","e","*">>
n_table_star  == <<"t","a","b","l","e","*">>

h_MATH == <<"M","A","T","H">>
h_CMD  == <<"C","M","D","_">>
h_ENV  == <<"E","N","V","_">>
h_CODE == <<"C","O","D","E","_">>

EndsWithStar(name) == Len(name) > 0 /\ name[Len(name)] = "*"

\* the test of lines 104-114: the environment is masked wrapper and all
IsOpaqueEnv(env_name) ==
    /\ (env_name \in OPAQUE_ENVS \/ EndsWithStar(env_name))
    /\ env_name \notin {n_figure_star, n_table_star}
    /\ \/ env_name \in OPAQUE_ENVS
       \/ replace_char(env_name, "*", <<>>) \in OPAQUE_ENVS

MaskRange(start, end, type_hint) == [start |-> start, end |-> end, hint |-> type_hint]

(***************************************************************************)
(* traverse_nodes(node_list), the node list starting at offset pos:        *)
(* the mask_ranges it appends, in the order it appends them.               *)
(***************************************************************************)
\* traverse_nodes without the `continue` statements: a masked node's children
\* are visited as well
RECURSIVE traverse_nodes_NoContinue(_, _)
traverse_nodes_NoContinue(node_list, pos) ==
    IF node_list = <<>> THEN <<>>
    ELSE
      LET node == Head(node_list)
          len  == Len(NodeSource(node))
          rest == traverse_nodes_NoContinue(Tail(node_list), pos + len)
          here ==
            IF node.kind = "math"
              THEN <<MaskRange(pos, pos + len, h_MATH)>>
            ELSE IF node.kind = "macro" /\ node.name \in MASKED_MACROS
              THEN <<MaskRange(pos, pos + len, h_CMD \o upper(node.name))>>
            ELSE IF node.kind = "env" /\ IsOpaqueEnv(node.name)
              THEN <<MaskRange(pos, pos + len,
                        h_ENV \o replace_char(upper(node.name), "*", <<"S">>))>>
            ELSE IF node.kind = "env" /\ node.name \in CODE_ENVS /\ node.nodelist # <<>>
              THEN <<MaskRange(pos + Len(node.open),
                               pos + len - Len(node.close),
                               h_CODE \o upper(node.name))>>
            ELSE <<>>
          below ==
            IF HasNodelist(node)
              THEN traverse_nodes_NoContinue(node.nodelist, pos + Len(node.open))
              ELSE <<>>
      IN  here \o below \o rest

\* traverse_nodes with a code environment masked like an opaque one, wrapper
\* and all
RECURSIVE traverse_nodes_CodeWhole(_, _)
traverse_nodes_CodeWhole(node_list, pos) ==
    IF node_list = <<>> THEN <<>>
    ELSE
      LET node == Head(node_list)
          len  == Len(NodeSource(node))
          rest == traverse_nodes_CodeWhole(Tail(node_list), pos + len)
          here ==
            IF node.kind = "math"
              THEN <<MaskRange(pos, pos + len, h_MATH)>>
            ELSE IF node.kind = "macro" /\ node.name \in MASKED_MACROS
              THEN <<MaskRange(pos, pos + len, h_CMD \o upper(node.name))>>
            ELSE IF node.kind = "env" /\ IsOpaqueEnv(node.name)
              THEN <<MaskRange(pos, pos + len,
                        h_ENV \o replace_char(upper(node.name), "*", <<"S">>))>>
            ELSE IF node.kind = "env" /\ node.name \in CODE_ENVS
              THEN <<MaskRange(pos, pos + len, h_CODE \o upper(node.name))>>
            ELSE IF HasNodelist(node)
              THEN traverse_nodes_CodeWhole(node.nodelist, pos + Len(node.open))
            ELSE <<>>
      IN  here \o rest

RECURSIVE traverse_nodes(_, _)
traverse_nodes(node_list, pos) ==
    IF node_list = <<>> THEN <<>>
    ELSE
      LET node == Head(node_list)
          len  == Len(NodeSource(node))
          rest == traverse_nodes(Tail(node_list), pos + len)
          here ==
            IF node.kind = "math"
              THEN <<MaskRange(pos, pos + len, h_MATH)>>
            ELSE IF node.kind = "macro" /\ node.name \in MASKED_MACROS
              THEN <<MaskRange(pos, pos + len, h_CMD \o upper(node.name))>>
            ELSE IF node.kind = "env" /\ IsOpaqueEnv(node.name)
              THEN <<MaskRange(pos, pos + len,
                        h_ENV \o replace_char(upper(node.name), "*", <<"S">>))>>
            ELSE IF node.kind = "env" /\ node.name \in CODE_ENVS
              THEN IF node.nodelist # <<>>
                   THEN <<MaskRange(pos + Len(node.open),
                                    pos + len - Len(node.close),
                                    h_CODE \o upper(node.name))>>
                   ELSE <<>>
            ELSE IF HasNodelist(node)
              THEN traverse_nodes(node.nodelist, pos + Len(node.open))
            ELSE <<>>
      IN  here \o rest

(***************************************************************************)
(* mask_content, lines 140-185: sort, then replace from the end.           *)
(***************************************************************************)
\* list.sort(key=start, reverse=True): stable, descending start
RECURSIVE SortByStartDesc(_)
SortByStartDesc(ranges) ==
    IF ranges = <<>> THEN <<>>
    ELSE
      LET init   == SubSeq(ranges, 1, Len(ranges) - 1)
          last   == ranges[Len(ranges)]
          sorted == SortByStartDesc(init)
          \* last goes behind every element whose start is >= its own
          k == Cardinality({i \in 1..Len(sorted) : sorted[i].start >= last.start})
      IN  SubSeq(sorted, 1, k) \o <<last>> \o SubSeq(sorted, k + 1, Len(sorted))

\* the sort of line 141 left out: the loop meets the ranges in traversal order
ReplaceOrder_Unsorted(ranges) == ranges

\* the order in which the replace loop meets the collected ranges (line 141)
ReplaceOrder(ranges) == SortByStartDesc(ranges)

\* masks[token] = original_segment on an insertion-ordered dict
DictSet(d, key, value) ==
    IF \E i \in 1..Len(d) : d[i].token = key
    THEN [i \in 1..Len(d) |-> IF d[i].token = key
                              THEN [token |-> key, original |-> value] ELSE d[i]]
    ELSE Append(d, [token |-> key, original |-> value])

\* working_text[start:end] = list(token)
SliceAssign(working_text, start, end, token) ==
    LET a == Min(Max(start, 0), Len(working_text))
        b == Max(Min(Max(end, 0), Len(working_text)), a)
    IN  SubSeq(working_text, 1, a) \o token
          \o SubSeq(working_text, b + 1, Len(working_text))

\* the loop of lines 163-183 over the ranges still to do
RECURSIVE ReplaceLoop(_, _, _, _, _)
ReplaceLoop(txt, ranges, working_text, msk, mask_counter) ==
    IF ranges = <<>>
    THEN [masked_text |-> working_text, masks |-> msk]
    ELSE
      LET r == Head(ranges)
      IN  IF r.start < 0 \/ r.end > Len(txt)
          THEN ReplaceLoop(txt, Tail(ranges), working_text, msk, mask_counter)
          ELSE
            LET token == MaskToken(r.hint, mask_counter)
            IN  ReplaceLoop(txt, Tail(ranges),
                    SliceAssign(working_text, r.start, r.end, token),
                    DictSet(msk, token, Slice(txt, r.start, r.end)),
                    mask_counter + 1)

(***************************************************************************)
(* mask_content_regex_fallback, lines 191-213                              *)
(***************************************************************************)
DD == <<"$", "$">>
h_R_MATH == <<"R","_","M","A","T","H">>

\* replacer(match): the token, the table entry, the counter
\* re.sub(r'\$\$.*?\$\$', replacer, text, flags=re.DOTALL) on s from index i on;
\* out is the output so far
RECURSIVE SubDisplay(_, _, _, _, _)
SubDisplay(s, i, out, msk, mask_counter) ==
    LET Closes(a) == {b \in (a + 2)..(Len(s) - 1) : MatchAt(s, b, DD)}
        starts == {a \in i..(Len(s) - 3) : MatchAt(s, a, DD) /\ Closes(a) # {}}
    IN  IF starts = {}
        THEN [text |-> out \o SubSeq(s, i, Len(s)), masks |-> msk,
              mask_counter |-> mask_counter]
        ELSE LET a == SetMin(starts)
                 b == SetMin(Closes(a))
                 token == MaskToken(h_R_MATH, mask_counter)
             IN  SubDisplay(s, b + 2, out \o SubSeq(s, i, a - 1) \o token,
                            DictSet(msk, token, SubSeq(s, a, b + 1)),
                            mask_counter + 1)

\* a "$" that (?<!\\)\$ matches at 1-based index j
UnescapedDollar(s, j) == s[j] = "$" /\ (j = 1 \/ s[j - 1] # BS)

\* re.sub(r'(?<!\\)\$.*?(?<!\\)\$', replacer, text, flags=re.DOTALL) on s from i on
RECURSIVE SubInline(_, _, _, _, _)
SubInline(s, i, out, msk, mask_counter) ==
    LET Closes(a) == {b \in (a + 1)..Len(s) : UnescapedDollar(s, b)}
        starts == {a \in i..(Len(s) - 1) : UnescapedDollar(s, a) /\ Closes(a) # {}}
    IN  IF starts = {}
        THEN [text |-> out \o SubSeq(s, i, Len(s)), masks |-> msk,
              mask_counter |-> mask_counter]
        ELSE LET a == SetMin(starts)
                 b == SetMin(Closes(a))
                 token == MaskToken(h_R_MATH, mask_counter)
             IN  SubInline(s, b + 1, out \o SubSeq(s, i, a - 1) \o token,
                           DictSet(msk, token, SubSeq(s, a, b)),
                           mask_counter + 1)

mask_content_regex_fallback(txt) ==
    LET display == SubDisplay(txt, 1, <<>>, <<>>, 0)
        inline  == SubInline(display.text, 1, <<>>, display.masks, display.mask_counter)
    IN  [masked_text |-> inline.text, masks |-> inline.masks]

\* mask_content without the except branch: a text the parser gives up on
\* comes back as it is
mask_content_NoFallback(txt, node_list, ok) ==
    ReplaceLoop(txt, ReplaceOrder(traverse_nodes(node_list, 0)), txt, <<>>, 0)

\* mask_content(text): node_list is what the walker yields for text; ok is
\* FALSE when the try block raises and the except branch runs
mask_content(txt, node_list, ok) ==
    IF ok
    THEN ReplaceLoop(txt, ReplaceOrder(traverse_nodes(node_list, 0)), txt, <<>>, 0)
    ELSE mask_content_regex_fallback(txt)

\* unmask_content(text, masks): one str.replace per entry, in dict order
RECURSIVE unmask_content(_, _)
unmask_content(txt, msk) ==
    IF msk = <<>> THEN txt
    ELSE unmask_content(str_replace(txt, Head(msk).token, Head(msk).original), Tail(msk))

(***************************************************************************)
(* Documents the masker is run on.                                         *)
(***************************************************************************)
t_MATH_0000 == MaskToken(h_MATH, 0)
t_MATH_0001 == MaskToken(h_MATH, 1)

CiteK   == MacroNode(n_cite, <<BS,"c","i","t","e","{","k","}">>)
RefK    == MacroNode(n_ref, <<BS,"r","e","f","{","k","}">>)
MathX   == MathNode(<<"$","x","$">>)

\* \begin{tabular}$x$\end{tabular}: an opaque environment with a math child
TabularX == EnvNode(n_tabular, <<>>, <<MathX>>)

\* \begin{lstlisting}[o]p$x$\end{lstlisting}: the option is an argument
\* (get_custom_context), the children are the code
ListingPX == EnvNode(n_lstlisting, <<"[","o","]">>, <<CharsNode(<<"p">>), MathX>>)

\* \section{$x$}: a macro that is not masked, its argument holding a math region
SectionX == MacroArgsNode(n_section, <<GroupNode(<<MathX>>)>>)

\* the nodes a generated document is made of
NodeSet ==
    { CharsNode(<<"a">>),
      CharsNode(t_MATH_0000),                          \* prose shaped like a token
      MathX,
      MathNode(<<"$">> \o t_MATH_0001 \o <<"$">>),     \* math holding such prose
      CiteK,
      EnvNode(n_align, <<>>, <<CharsNode(<<"x">>)>>),  \* opaque
      EnvNode(n_minted, <<"{","c","}">>, <<CharsNode(<<"p">>)>>), \* code content
      GroupNode(<<RefK, CharsNode(<<"b">>)>>),         \* transparent
      TabularX, ListingPX, SectionX }

\* The $E=mc^2$ law is due to \cite{einstein}.
ExampleDoc ==
    << CharsNode(<<"T","h","e"," ">>),
       MathNode(<<"$","E","=","m","c","^","2","$">>),
       CharsNode(<<" ","l","a","w"," ","i","s"," ","d","u","e"," ","t","o"," ">>),
       MacroNode(n_cite, <<BS,"c","i","t","e","{","e","i","n","s","t","e","i","n","}">>),
       CharsNode(<<".">>) >>

Documents ==
    UNION {[1..n -> NodeSet] : n \in 0..MaxNodes} \cup {ExampleDoc}

\* $a$$b$ and $c$$d$: inline math regions standing next to each other
AdjacentInline ==
    <<"$","a","$","$","b","$"," ","a","n","d"," ","$","c","$","$","d","$">>

\* texts the fallback masker is run on: unbalanced and escaped dollars, and
\* the text above
RawTexts ==
    UNION {[1..n -> {"a", "$", BS}] : n \in 0..MaxRawLen} \cup {AdjacentInline}

(***************************************************************************)
(* SpecMask: mask one document, then unmask the masked text.               *)
(***************************************************************************)
MaskIdle ==
    /\ text = <<>> /\ nodes = <<>> /\ parse_ok = TRUE
    /\ masked_text = <<>> /\ masks = <<>> /\ final_text = <<>>
    /\ mphase = "idle"

InitMask ==
    /\ SplitIdle
    /\ PipeIdle
    /\ WalkIdle
    /\ \/ /\ parse_ok = TRUE
          /\ nodes \in Documents
          /\ text = Render(nodes)
       \/ /\ parse_ok = FALSE
          /\ nodes = <<>>
          /\ text \in RawTexts
    /\ masked_text = <<>>
    /\ masks = <<>>
    /\ final_text = <<>>
    /\ mphase = "input"

\* main.py line 138: masked_text, masks = mask_content(content)
MaskContent ==
    /\ mphase = "input"
    /\ LET r == mask_content(text, nodes, parse_ok)
       IN  /\ masked_text' = r.masked_text
           /\ masks' = r.masks
    /\ mphase' = "masked"
    /\ UNCHANGED <<text, nodes, parse_ok, final_text, splitVars, pipeVars, walkVars>>

\* main.py line 147 on the masked text itself (an identity translation)
UnmaskContent ==
    /\ mphase = "masked"
    /\ final_text' = unmask_content(masked_text, masks)
    /\ mphase' = "unmasked"
    /\ UNCHANGED <<text, nodes, parse_ok, masked_text, masks, splitVars, pipeVars, walkVars>>

NextMask == MaskContent \/ UnmaskContent

SpecMask == InitMask /\ [][NextMask]_vars

(***************************************************************************)
(* Claims about the masker (checked under SpecMask).                       *)
(***************************************************************************)
MaskedDone == mphase \in {"masked", "unmasked"}

\* C3 (as stated): round trip - for any document text, also one that holds a
\* substring shaped like a mask token, unmasking the masked text with the
\* table of the same call gives the text back.
C3_RoundTrip == mphase = "unmasked" => final_text = text

\* number of collected ranges that start right of (left of) range i
StartsRightOf(R, i) == Cardinality({j \in 1..Len(R) : R[j].start > R[i].start})
StartsLeftOf(R, i)  == Cardinality({j \in 1..Len(R) : R[j].start < R[i].start})

\* The [MASK_MATH_0000] law is due to [MASK_CMD_CITE_0001].
ExampleMaskedAsClaimed ==
    <<"T","h","e"," ">> \o MaskToken(h_MATH, 0)
      \o <<" ","l","a","w"," ","i","s"," ","d","u","e"," ","t","o"," ">>
      \o MaskToken(h_CMD \o <<"C","I","T","E">>, 1) \o <<".">>

\* The [MASK_MATH_0001] law is due to [MASK_CMD_CITE_0000].
ExampleMaskedByCode ==
    <<"T","h","e"," ">> \o MaskToken(h_MATH, 1)
      \o <<" ","l","a","w"," ","i","s"," ","d","u","e"," ","t","o"," ">>
      \o MaskToken(h_CMD \o <<"C","I","T","E">>, 0) \o <<".">>

\* C8 (as stated): token numbering follows document order - the counter of a
\* span is the number of spans that start left of it, so the leftmost span
\* gets 0000, and the example masks to "The [MASK_MATH_0000] law is due to
\* [MASK_CMD_CITE_0001]."
C8_DocumentOrder ==
    (mphase = "masked" /\ parse_ok) =>
        LET R == traverse_nodes(nodes, 0)
        IN  /\ Len(masks) = Len(R)
            /\ \A i \in 1..Len(R) :
                 LET k == StartsLeftOf(R, i)
                 IN  masks[k + 1] = [token |-> MaskToken(R[i].hint, k),
                                     original |-> Slice(text, R[i].start, R[i].end)]
            /\ nodes = ExampleDoc => masked_text = ExampleMaskedAsClaimed

\* C8 (amended): in a structural mask_content call the counters increase from
\* 0000 with DESCENDING start offset - the counter of a span is the number of
\* spans that start right of it, so the rightmost span gets 0000 - and the
\* example masks to "The [MASK_MATH_0001] law is due to [MASK_CMD_CITE_0000]."
\* with the table mapping those tokens to $E=mc^2$ and \cite{einstein}.
C8_ReverseDocumentOrder ==
    (mphase = "masked" /\ parse_ok) =>
        LET R == traverse_nodes(nodes, 0)
        IN  /\ Len(masks) = Len(R)
            /\ \A i \in 1..Len(R) :
                 LET k == StartsRightOf(R, i)
                 IN  masks[k + 1] = [token |-> MaskToken(R[i].hint, k),
                                     original |-> Slice(text, R[i].start, R[i].end)]
            /\ nodes = ExampleDoc => masked_text = ExampleMaskedByCode

\* the example document has been masked, two spans replaced
C8_Witness ==
    /\ mphase = "masked"
    /\ parse_ok
    /\ nodes = ExampleDoc
    /\ Len(masks) = 2

\* C10 (as stated): no token collision - every key of the table occurs exactly
\* once in the masked text, and no key occurs in the original text nor inside
\* any value of the table.
C10_NoTokenCollision ==
    MaskedDone =>
        \A i \in 1..Len(masks) :
            /\ Count(masked_text, masks[i].token) = 1
            /\ ~Contains(text, masks[i].token)
            /\ \A j \in 1..Len(masks) : ~Contains(masks[j].original, masks[i].token)

(***************************************************************************)
(* SpecSplit: smart_split on a text and a max_chars of its own.            *)
(***************************************************************************)
SplitTexts == UNION {[1..n -> {"a", " ", NL}] : n \in 0..MaxSplitLen}

InitSplit ==
    /\ MaskIdle
    /\ PipeIdle
    /\ WalkIdle
    /\ split_text \in SplitTexts
    /\ max_chars \in 1..MaxMaxChars
    /\ split_chunks = <<>>
    /\ sphase = "input"

SmartSplit ==
    /\ sphase = "input"
    /\ split_chunks' = smart_split(split_text, max_chars)
    /\ sphase' = "split"
    /\ UNCHANGED <<split_text, max_chars, maskVars, pipeVars, walkVars>>

NextSplit == SmartSplit

SpecSplit == InitSplit /\ [][NextSplit]_vars

\* C4: segmentation is lossless - for any text and any max_chars >= 1 the
\* chunks smart_split returns, concatenated in order, are the text.
C4_SplitLossless == sphase = "split" => Join(split_chunks) = split_text

\* a text with a paragraph break has been cut into several chunks
C4_Witness ==
    /\ sphase = "split"
    /\ Len(split_chunks) >= 3
    /\ Contains(split_text, <<NL, NL>>)
    /\ \E k \in 1..Len(split_chunks) : split_chunks[k] = <<NL, NL>>

(***************************************************************************)
(* Spec: one translate_file_content call, lines 219-252.                   *)
(***************************************************************************)
FileTexts == UNION {[1..n -> {"a", NL}] : n \in 0..MaxFileLen}

Init ==
    /\ MaskIdle
    /\ SplitIdle
    /\ WalkIdle
    /\ masked_content \in FileTexts
    /\ chunks = <<>> /\ idx = 0 /\ translated_chunks = <<>>
    /\ state = initial_state(<<>>, 0) /\ graph_node = "none" /\ steps = 0
    /\ pc = "call" /\ output = <<>>
    /\ last_critic = NoResponse /\ cur = NoCalls
    /\ handled = <<>> /\ outage = TRUE /\ clean = TRUE

\* the chunk dropped instead of appended
Collect_Drop(results, chunk) == results

\* translated_chunks.append(...), lines 234 and 249
Collect(results, chunk) == Append(results, chunk)

\* lines 224-229: chunks = smart_split(masked_content)
SplitFile ==
    /\ pc = "call"
    /\ chunks' = smart_split(masked_content, ChunkChars)
    /\ translated_chunks' = <<>>
    /\ idx' = 1
    /\ pc' = "loop"
    /\ UNCHANGED <<masked_content, state, graph_node, steps, output, last_critic, cur,
                   handled, outage, clean, maskVars, splitVars, walkVars>>

\* lines 233-235: an empty or whitespace-only chunk is appended as it is
SkipChunk ==
    /\ pc = "loop" /\ idx <= Len(chunks)
    /\ strip(chunks[idx]) = <<>>
    /\ translated_chunks' = Collect(translated_chunks, chunks[idx])
    /\ handled' = Append(handled, [chunk_index |-> idx - 1, result |-> chunks[idx],
                                   entered |-> FALSE, failed |-> FALSE])
    /\ idx' = idx + 1
    /\ UNCHANGED <<masked_content, chunks, state, graph_node, steps, pc, output,
                   last_critic, cur, outage, clean, maskVars, splitVars, walkVars>>

\* lines 237-248: app.invoke(initial_state) starts at the entry point
InvokeGraph ==
    /\ pc = "loop" /\ idx <= Len(chunks)
    /\ strip(chunks[idx]) # <<>>
    /\ state' = initial_state(chunks[idx], idx - 1)
    /\ graph_node' = "translate"
    /\ steps' = 0
    /\ cur' = NoCalls
    /\ last_critic' = NoResponse
    /\ pc' = "graph"
    /\ UNCHANGED <<masked_content, chunks, idx, translated_chunks, output,
                   handled, outage, clean, maskVars, splitVars, walkVars>>

\* the graph runs translate_node, then follows the edge translate -> critic
TranslateNode ==
    /\ pc = "graph" /\ graph_node = "translate" /\ steps < RecursionLimit
    /\ \E resp \in TextResponses(state.original_chunk) :
        /\ state' = translate_node(state, resp)
        /\ cur' = [cur EXCEPT !.translate = IF resp.kind = "raise" THEN "raised" ELSE "ok",
                              !.translate_calls = @ + 1]
        /\ outage' = (outage /\ resp.kind = "raise")
        /\ clean' = (clean /\ resp.kind = "ok" /\ resp.content = state.original_chunk)
    /\ graph_node' = "critic"
    /\ steps' = steps + 1
    /\ UNCHANGED <<masked_content, chunks, idx, translated_chunks, pc, output,
                   last_critic, handled, maskVars, splitVars, walkVars>>

\* the graph runs critic_node, then follows the conditional edge
CriticNode ==
    /\ pc = "graph" /\ graph_node = "critic" /\ steps < RecursionLimit
    /\ \E resp \in CriticResponses :
        /\ state' = critic_node(state, resp)
        /\ last_critic' = resp
    /\ graph_node' = AfterCritic(state')
    /\ cur' = [cur EXCEPT !.critic_calls = @ + 1,
                          !.critic_fails = IF state'.critic_errors # <<>> THEN @ + 1 ELSE @]
    /\ clean' = (clean /\ state'.critic_errors = <<>>)
    /\ steps' = steps + 1
    /\ UNCHANGED <<masked_content, chunks, idx, translated_chunks, pc, output,
                   handled, outage, maskVars, splitVars, walkVars>>

\* the graph runs fixer_node, then follows the edge fixer -> critic
FixerNode ==
    /\ pc = "graph" /\ graph_node = "fixer" /\ steps < RecursionLimit
    /\ \E resp \in TextResponses(state.original_chunk) :
        /\ state' = fixer_node(state, resp)
        /\ cur' = [cur EXCEPT !.fixer_runs = @ + 1,
                              !.fixer_calls = IF FixerCalls(state) THEN @ + 1 ELSE @,
                              !.fixer_raised = IF FixerCalls(state) /\ resp.kind = "raise"
                                               THEN @ + 1 ELSE @]
    /\ last_critic' = NoResponse
    /\ graph_node' = "critic"
    /\ steps' = steps + 1
    /\ UNCHANGED <<masked_content, chunks, idx, translated_chunks, pc, output,
                   handled, outage, clean, maskVars, splitVars, walkVars>>

\* the pipeline of the chunk in progress fell back: the translation call
\* raised, or the repair attempts are exhausted
PipelineFailed ==
    cur.translate = "raised" \/ state.failed_attempts > MAX_FAILURES

\* lines 248-249: the graph reached END; result["translated_chunk"] is appended
GraphEnd ==
    /\ pc = "graph" /\ graph_node = "END"
    /\ translated_chunks' = Collect(translated_chunks, state.translated_chunk)
    /\ handled' = Append(handled, [chunk_index |-> state.chunk_index,
                                   result |-> state.translated_chunk,
                                   entered |-> TRUE,
                                   failed |-> PipelineFailed])
    /\ idx' = idx + 1
    /\ graph_node' = "none"
    /\ last_critic' = NoResponse
    /\ pc' = "loop"
    /\ UNCHANGED <<masked_content, chunks, state, steps, output, cur,
                   outage, clean, maskVars, splitVars, walkVars>>

\* line 248: the graph ran RecursionLimit nodes without reaching END;
\* app.invoke raises and nothing in translate_file_content catches it
GraphRecursionError ==
    /\ pc = "graph" /\ graph_node # "END" /\ steps >= RecursionLimit
    /\ pc' = "raised"
    /\ UNCHANGED <<masked_content, chunks, idx, translated_chunks, state, graph_node, steps,
                   output, last_critic, cur, handled, outage, clean,
                   maskVars, splitVars, walkVars>>

\* line 252: return "".join(translated_chunks)
Return ==
    /\ pc = "loop" /\ idx > Len(chunks)
    /\ output' = Join(translated_chunks)
    /\ pc' = "returned"
    /\ UNCHANGED <<masked_content, chunks, idx, translated_chunks, state, graph_node, steps,
                   last_critic, cur, handled, outage, clean,
                   maskVars, splitVars, walkVars>>

Next ==
    \/ SplitFile
    \/ SkipChunk
    \/ InvokeGraph
    \/ TranslateNode
    \/ CriticNode
    \/ FixerNode
    \/ GraphEnd
    \/ GraphRecursionError
    \/ Return

Spec == Init /\ [][Next]_vars

(***************************************************************************)
(* Claims about the pipeline and the orchestrator (checked under Spec).    *)
(***************************************************************************)
InGraph == pc \in {"graph", "raised"}

\* every critique of the graph run in progress failed
EveryCritiqueFailed == cur.critic_fails = cur.critic_calls

\* C1 (as stated): bounded repair - for a chunk whose critique fails on every
\* invocation the pipeline is over after cap+1 = 4 critique/fix cycles: the
\* critique is never invoked a fifth time, and once the fourth fix has run the
\* pipeline has ended with translated_chunk equal to original_chunk.
C1_BoundedRepair ==
    (InGraph /\ cur.translate = "ok" /\ EveryCritiqueFailed) =>
        /\ cur.critic_calls <= MAX_FAILURES + 1
        /\ (cur.critic_calls = MAX_FAILURES + 1 /\ cur.fixer_runs = MAX_FAILURES + 1) =>
              state.translated_chunk = state.original_chunk

\* C2 (as stated): fallback on service outage - if every call to the
\* translation service raises, then whatever the critique and repair services
\* answer no exception leaves translate_file_content, and a pipeline that has
\* ended holds translated_chunk = original_chunk.
C2_FallbackOnOutage ==
    (outage /\ cur.translate = "raised") =>
        /\ pc # "raised"
        /\ (pc = "graph" /\ graph_node = "END") =>
              state.translated_chunk = state.original_chunk

\* C5: ordered reassembly - one result per chunk, appended in ascending chunk
\* index; a chunk that is empty or whitespace-only never enters the pipeline
\* and is its own result, every other chunk's result is what its own graph run
\* ended with; and the value returned is the results concatenated in order.
C5_OrderedReassembly ==
    /\ pc \in {"loop", "graph", "raised", "returned"} =>
          /\ Len(translated_chunks) = idx - 1
          /\ Len(handled) = idx - 1
          /\ \A k \in 1..Len(translated_chunks) :
                /\ handled[k].chunk_index = k - 1
                /\ translated_chunks[k] = handled[k].result
                /\ handled[k].entered = (strip(chunks[k]) # <<>>)
                /\ ~handled[k].entered => translated_chunks[k] = chunks[k]
    /\ pc = "returned" =>
          /\ Len(translated_chunks) = Len(chunks)
          /\ output = Join(translated_chunks)

\* a file of three chunks, the middle one blank, has been returned translated
C5_Witness ==
    /\ pc = "returned"
    /\ Len(chunks) = 3
    /\ strip(chunks[2]) = <<>>
    /\ handled[1].entered /\ handled[3].entered
    /\ translated_chunks[1] # chunks[1]
    /\ output # masked_content

\* did the critique the latest critic_node run got parse with all three true
CritiquePassed ==
    /\ last_critic.kind = "json"
    /\ last_critic.safe = "true"
    /\ last_critic.syntax_valid = "true"
    /\ last_critic.quality_pass = "true"

C7_FailureIsolation ==
    /\ (InGraph /\ PipelineFailed) => pc # "raised"
    /\ \A k \in 1..Len(handled) :
          handled[k].failed => translated_chunks[k] = chunks[k]

\* C9 (as stated): identity translation is exact - when the translation
\* service returns every chunk unchanged and every critique passes,
\* translate_file_content returns the masked text character for character.
C9_IdentityExact ==
    (pc = "returned" /\ clean) => output = masked_content


(***************************************************************************)
(* Claims about the spans of a structural mask_content call (SpecMask).    *)
(***************************************************************************)
\* the structural branch of mask_content has run
MaskedStructurally == mphase = "masked" /\ parse_ok

\* the mask_ranges of the call, in the order traverse_nodes appended them
Spans == traverse_nodes(nodes, 0)

SpansDisjoint(r, q) == r.end <= q.start \/ q.end <= r.start

\* C11: disjointness - the mask spans one mask_content call collects are
\* pairwise non-overlapping and each satisfies 0 <= start <= end <= len(text);
\* so the replace loop skips none of them.
C11_Disjointness ==
    MaskedStructurally =>
        /\ \A i \in 1..Len(Spans) :
              /\ 0 <= Spans[i].start
              /\ Spans[i].start <= Spans[i].end
              /\ Spans[i].end <= Len(text)
        /\ \A i, j \in 1..Len(Spans) :
              i # j => SpansDisjoint(Spans[i], Spans[j])
        /\ Len(masks) = Len(Spans)

\* a document with an opaque environment that holds a math region, and at
\* least one more masked node, has been masked
C11_Witness ==
    /\ MaskedStructurally
    /\ \E i \in 1..Len(nodes) : nodes[i] = TabularX
    /\ Len(Spans) >= 2
    /\ \E i \in 1..Len(masks) : masks[i].original = NodeSource(TabularX)


\* the number of matches the two re.sub passes of the fallback replace in txt
FallbackMatches(txt) ==
    LET display == SubDisplay(txt, 1, <<>>, <<>>, 0)
    IN  SubInline(display.text, 1, <<>>, display.masks, display.mask_counter).mask_counter

\* does token end with _<counter:04d>]
HasCounter(token, counter) ==
    LET suffix == <<"_">> \o Format04d(counter) \o <<"]">>
    IN  /\ Len(token) > Len(suffix)
        /\ SubSeq(token, Len(token) - Len(suffix) + 1, Len(token)) = suffix

\* C12: uniqueness - the tokens one mask call emits, structural or fallback,
\* are pairwise distinct (the k-th carries the counter k-1), and the table has
\* as many entries as spans were replaced.
C12_Uniqueness ==
    mphase = "masked" =>
        /\ \A i, j \in 1..Len(masks) : i # j => masks[i].token # masks[j].token
        /\ \A i \in 1..Len(masks) : HasCounter(masks[i].token, i - 1)
        /\ Len(masks) = IF parse_ok THEN Len(Spans) ELSE FallbackMatches(text)

\* the fallback has masked two regions of the same text, each under its own token
C12_Witness ==
    /\ mphase = "masked"
    /\ ~parse_ok
    /\ Len(masks) = 2
    /\ masks[1].original = masks[2].original
    /\ Count(masked_text, masks[1].token) = 1
    /\ Count(masked_text, masks[2].token) = 1


\* Every node of the tree under node_list (which starts at offset pos) with
\* its offset, and whether one of its ancestors is masked (covered) or is a
\* macro that holds it in an argument (in_args).
IsMaskedWhole(node) ==
    \/ node.kind = "math"
    \/ node.kind = "macro" /\ node.name \in MASKED_MACROS
    \/ node.kind = "env" /\ IsOpaqueEnv(node.name)

IsCodeEnv(node) == node.kind = "env" /\ node.name \in CODE_ENVS

RECURSIVE TreeNodes(_, _, _, _)
TreeNodes(node_list, pos, covered, in_args) ==
    UNION { LET node == node_list[i]
                p    == pos + Len(Render(SubSeq(node_list, 1, i - 1)))
            IN  {[node |-> node, pos |-> p, end |-> p + Len(NodeSource(node)),
                  covered |-> covered, in_args |-> in_args]}
                  \cup TreeNodes(node.nodelist, p + Len(node.open),
                                 covered \/ IsMaskedWhole(node) \/ IsCodeEnv(node),
                                 in_args \/ node.kind = "macro")
          : i \in 1..Len(node_list) }

AllNodes == TreeNodes(nodes, 0, FALSE, FALSE)

\* the indices of the spans that share a character with [from, to)
SpansTouching(from, to) ==
    {i \in 1..Len(Spans) : Spans[i].start < to /\ Spans[i].end > from}

\* C13: code-content environments keep their wrapper - for an environment
\* named lstlisting, verbatim or minted that traverse_nodes classifies and
\* whose child list is not empty, exactly one span touches the environment: it
\* runs from the start of the first child to the end of the last child and is
\* tagged CODE_<NAME>; the masked text holds the \begin{..}[options] and
\* \end{..} text around its token, and the table maps the token to the source
\* of the children.
C13_CodeKeepsWrapper ==
    MaskedStructurally =>
        \A o \in AllNodes :
            (IsCodeEnv(o.node) /\ o.node.nodelist # <<>> /\ ~o.covered /\ ~o.in_args) =>
                LET touching == SpansTouching(o.pos, o.end)
                    inner == MaskRange(o.pos + Len(o.node.open),
                                       o.end - Len(o.node.close),
                                       h_CODE \o upper(o.node.name))
                IN  /\ Cardinality(touching) = 1
                    /\ \A i \in touching : Spans[i] = inner
                    /\ \E k \in 1..Len(masks) :
                          /\ masks[k].original = Render(o.node.nodelist)
                          /\ MatchAt(masks[k].token, 1, <<"[","M","A","S","K","_">> \o inner.hint)
                          /\ Contains(masked_text,
                                      o.node.open \o masks[k].token \o o.node.close)

\* a document with \begin{lstlisting}[o]p$x$\end{lstlisting} has been masked:
\* the wrapper stands around one CODE_LSTLISTING token
C13_Witness ==
    /\ MaskedStructurally
    /\ \E i \in 1..Len(nodes) : nodes[i] = ListingPX
    /\ \E k \in 1..Len(masks) :
          /\ masks[k].original = <<"p","$","x","$">>
          /\ Contains(masked_text, ListingPX.open \o masks[k].token \o ListingPX.close)


\* what the call returned when the try block raised
FallbackResult ==
    (mphase = "masked" /\ ~parse_ok) =>
          /\ masked_text = mask_content_regex_fallback(text).masked_text
          /\ masks = mask_content_regex_fallback(text).masks
          /\ Len(masks) = FallbackMatches(text)
          /\ \A k \in 1..Len(masks) :
                /\ masks[k].token = MaskToken(h_R_MATH, k - 1)
                /\ Len(masks[k].original) >= 2
                /\ Head(masks[k].original) = "$"
                /\ masks[k].original[Len(masks[k].original)] = "$"

\* C14: the masker is total - the one step a mask_content call takes is its
\* return, also on a text whose structural parse or traversal raises; it then
\* returns what mask_content_regex_fallback returns: every table entry is a
\* region that starts and ends with a dollar sign, under an R_MATH token.
C14_MaskerTotal ==
    /\ []FallbackResult
    /\ [][mphase = "input" => (mphase' = "masked" /\ text' = text)]_vars

\* a text the parser gave up on, with an escaped dollar sign and a math
\* region, has been masked by the fallback
C14_Witness ==
    /\ mphase = "masked"
    /\ ~parse_ok
    /\ Contains(text, <<BS, "$">>)
    /\ Len(masks) >= 1
    /\ Contains(masked_text, <<BS, "$">>)


(***************************************************************************)
(* Claims about the per-chunk pipeline (checked under Spec), continued.    *)
(***************************************************************************)
\* C15 (as stated): on a translation service failure the pipeline goes from
\* Translating directly to Done with translated_chunk = original_chunk;
\* neither the critique service nor the repair service is invoked for that
\* chunk.
C15_FailureGoesToDone ==
    (pc = "graph" /\ cur.translate = "raised") =>
        /\ graph_node = "END"
        /\ state.translated_chunk = state.original_chunk
        /\ cur.critic_calls = 0
        /\ cur.fixer_calls = 0


\* one step of a graph run that leaves the run going
GraphStep == pc = "graph" /\ pc' = "graph"

\* C16: transition structure - a graph run starts at translate (Translating);
\* the node after translate and the only node after fixer (Fixing) is critic
\* (Critiquing); the node after critic is END (Done) when critic_errors is
\* empty and fixer when it is not; END has no successor.
C16_TransitionStructure ==
    [][ /\ (pc # "graph" /\ pc' = "graph") => graph_node' = "translate"
        /\ (GraphStep /\ graph_node = "translate") => graph_node' = "critic"
        /\ (GraphStep /\ graph_node = "fixer") => graph_node' = "critic"
        /\ (GraphStep /\ graph_node = "critic") =>
              /\ state'.critic_errors = <<>> => graph_node' = "END"
              /\ state'.critic_errors # <<>> => graph_node' = "fixer"
        /\ (pc = "graph" /\ graph_node = "END") =>
              (pc' = "loop" /\ graph_node' = "none" /\ state' = state)
        /\ pc = "graph" => graph_node \in {"translate", "critic", "fixer", "END"}
      ]_vars

\* a graph run went translate, critic, fixer, critic and has reached END
C16_Witness ==
    /\ pc = "graph"
    /\ graph_node = "END"
    /\ cur.fixer_runs = 1
    /\ cur.critic_calls = 2
    /\ steps = 4


\* the fixer_node run of this step is past the cap
FixerPastCap ==
    /\ pc = "graph" /\ graph_node = "fixer" /\ pc' = "graph"
    /\ state.failed_attempts + 1 > 3

\* per graph run: the repair service has been called at most 3 times, and the
\* translation service once as soon as translate_node has run
CallBudget ==
    InGraph =>
        /\ cur.fixer_calls <= 3
        /\ cur.translate_calls = IF graph_node = "translate" THEN 0 ELSE 1

\* C17: repair budget - whatever the services answer, one chunk's graph run
\* calls the repair service at most 3 times and the translation service
\* exactly once; a fixer_node run whose incremented attempt count exceeds 3
\* calls no service and leaves translated_chunk = original_chunk with an
\* empty error list.
C17_RepairBudget ==
    /\ []CallBudget
    /\ [][FixerPastCap =>
            /\ cur'.fixer_calls = cur.fixer_calls
            /\ cur'.translate_calls = cur.translate_calls
            /\ state'.translated_chunk = state.original_chunk
            /\ state'.critic_errors = <<>>
            /\ state'.failed_attempts = state.failed_attempts + 1]_vars

\* a chunk with prose: the repair service was called three times, each answer
\* failed the critique, and the fourth fixer_node run has reverted the chunk
C17_Witness ==
    /\ pc = "graph"
    /\ cur.translate = "ok"
    /\ cur.fixer_calls = 3
    /\ cur.fixer_runs = 4
    /\ state.failed_attempts = 4
    /\ state.translated_chunk = state.original_chunk
    /\ state.critic_errors = <<>>
    /\ Translated(state.original_chunk) # state.original_chunk


\* the fixer_node run of this step called the repair service and the call raised
RepairCallRaised ==
    /\ pc = "graph" /\ graph_node = "fixer"
    /\ cur'.fixer_raised = cur.fixer_raised + 1

\* C18: repair service error - when the repair call raises while the attempt
\* count is within the cap, translated_chunk stays the failed translation, the
\* errors of the critique stay, the attempt count goes up by one and the next
\* node is critic: the error neither leaves the graph run nor ends the loop.
C18_RepairErrorRetains ==
    [][RepairCallRaised =>
          /\ state.failed_attempts + 1 <= 3
          /\ state'.translated_chunk = state.translated_chunk
          /\ state'.critic_errors = state.critic_errors
          /\ state'.failed_attempts = state.failed_attempts + 1
          /\ pc' = "graph"
          /\ graph_node' = "critic"]_vars

\* the first repair call raised: the translation the critique rejected is
\* still there, one attempt is counted, and critic is next
C18_Witness ==
    /\ pc = "graph"
    /\ graph_node = "critic"
    /\ cur.fixer_raised = 1
    /\ cur.fixer_runs = 1
    /\ state.failed_attempts = 1
    /\ state.translated_chunk # state.original_chunk
    /\ state.critic_errors # <<>>


\* the indices of the spans that cover [from, to)
SpansCovering(from, to) ==
    {i \in 1..Len(Spans) : Spans[i].start <= from /\ to <= Spans[i].end}

\* C19 (as stated): classification coverage - every math region and every
\* atomic reference-family macro of the parse tree that has no opaque or
\* code-content ancestor is covered by exactly one emitted span, wherever it
\* is nested: inside groups, inside transparent environments, and inside the
\* arguments of transparent macros such as \section.
C19_ClassificationCoverage ==
    MaskedStructurally =>
        \A o \in AllNodes :
            ((o.node.kind = "math" \/ (o.node.kind = "macro" /\ o.node.name \in MASKED_MACROS))
                /\ ~o.covered)
              => Cardinality(SpansCovering(o.pos, o.end)) = 1


(***************************************************************************)
(* Claims about smart_split (checked under SpecSplit), continued.          *)
(***************************************************************************)
\* the split pieces of the text, and the 0-based offset at which the k-th
\* element of a list of strings starts in their concatenation
Pieces == Paragraphs(split_text)
OffsetOf(parts, k) == Len(Join(SubSeq(parts, 1, k - 1)))

\* the pieces that start where chunk k starts
PiecesAtChunk(k) ==
    {p \in 1..Len(Pieces) : OffsetOf(Pieces, p) = OffsetOf(split_chunks, k)}

\* C20: chunk size rule - every chunk smart_split returns has length <=
\* max_chars or is exactly one split piece (an oversized paragraph is neither
\* split nor merged with a neighbour); and a chunk was closed only because the
\* piece that opens the next chunk would have made it longer than max_chars.
C20_ChunkSizeRule ==
    sphase = "split" =>
        /\ \A k \in 1..Len(split_chunks) :
              \/ Len(split_chunks[k]) <= max_chars
              \/ \E p \in PiecesAtChunk(k) : Pieces[p] = split_chunks[k]
        /\ \A k \in 2..Len(split_chunks) :
              \E p \in PiecesAtChunk(k) :
                  /\ Len(Pieces[p]) <= Len(split_chunks[k])
                  /\ Len(split_chunks[k - 1]) + Len(Pieces[p]) > max_chars

\* a text was split into a chunk of two pieces that fills max_chars exactly
\* and an oversized paragraph on its own
C20_Witness ==
    /\ sphase = "split"
    /\ Len(split_chunks) >= 2
    /\ \E k \in 1..Len(split_chunks) :
          /\ Len(split_chunks[k]) = max_chars
          /\ Contains(split_chunks[k], <<NL, NL>>)
          /\ Contains(split_chunks[k], <<"a">>)
    /\ \E k \in 1..Len(split_chunks) :
          /\ Len(split_chunks[k]) > max_chars
          /\ ~Contains(split_chunks[k], <<NL, NL>>)


(***************************************************************************)
(* Claims about the fallback masker (checked under SpecMask), continued.   *)
(***************************************************************************)
\* C21 (as stated): degraded mode keeps the mask-table invariants - for any
\* text the fallback masks, also one with adjacent inline regions such as
\* "$a$$b$ and $c$$d$", the replaced spans are not nested (every token of the
\* table stands once in the masked text), no table value contains another
\* token, and unmasking the masked text gives the text back.
C21_FallbackInvariants ==
    (MaskedDone /\ ~parse_ok) =>
        /\ \A i \in 1..Len(masks) : Count(masked_text, masks[i].token) = 1
        /\ \A i, j \in 1..Len(masks) :
              i # j => ~Contains(masks[i].original, masks[j].token)
        /\ mphase = "unmasked" => final_text = text


(***************************************************************************)
(* SpecWalk: one walk_and_process call, walker.py lines 68-121.            *)
(***************************************************************************)
InitWalk ==
    /\ MaskIdle
    /\ SplitIdle
    /\ PipeIdle
    /\ entry_file = 1               \* the files are numbered from the entry file on
    /\ entry_exists \in BOOLEAN
    /\ visited = {}
    /\ wstack = <<>>
    /\ wpc = "call"
    /\ calls = <<>> /\ failed = {} /\ included = {} /\ scanned = {}

Frame(path) == [path |-> path, at |-> "call", taken |-> 0]

\* the innermost dfs call
Top == wstack[Len(wstack)]

\* only entry_file can be missing: resolve_path returns existing files
Exists(path) == path # entry_file \/ entry_exists

\* the innermost dfs call moves on to position at
Goto(at) == wstack' = [wstack EXCEPT ![Len(wstack)].at = at]

\* the innermost dfs call returns; walk_and_process returns with the outermost
ReturnDfs ==
    /\ wstack' = SubSeq(wstack, 1, Len(wstack) - 1)
    /\ wpc' = IF Len(wstack) = 1 THEN "done" ELSE "walk"

\* line 121: dfs(entry_file)
WalkEntry ==
    /\ wpc = "call"
    /\ wstack' = <<Frame(entry_file)>>
    /\ wpc' = "walk"
    /\ UNCHANGED <<entry_file, entry_exists, visited, calls, failed, included, scanned,
                   maskVars, splitVars, pipeVars>>

\* lines 80-82: a path already visited returns at once, a new one is added
DfsEnter ==
    /\ wpc = "walk" /\ Top.at = "call"
    /\ IF Top.path \in visited
       THEN /\ ReturnDfs
            /\ UNCHANGED visited
       ELSE /\ visited' = visited \cup {Top.path}
            /\ Goto("process")
            /\ UNCHANGED wpc
    /\ UNCHANGED <<entry_file, entry_exists, calls, failed, included, scanned,
                   maskVars, splitVars, pipeVars>>

\* lines 92-95: process_callback(current_path) returns or raises
ProcessCallback ==
    /\ wpc = "walk" /\ Top.at = "process"
    /\ calls' = Append(calls, Top.path)
    /\ \E outcome \in {"ok", "raise"} :
        /\ failed' = IF outcome = "raise" THEN failed \cup {Top.path} ELSE failed
        /\ IF after_callback(outcome) = "raised"
           THEN wstack' = <<>> /\ wpc' = "raised"
           ELSE Goto("children") /\ UNCHANGED wpc
    /\ UNCHANGED <<entry_file, entry_exists, visited, included, scanned,
                   maskVars, splitVars, pipeVars>>

\* lines 101-112: a file that is not on disk has no children; else the file
\* is read and its includes are found
FindChildren ==
    /\ wpc = "walk" /\ Top.at = "children"
    /\ IF Exists(Top.path)
       THEN Goto("includes") /\ UNCHANGED wpc
       ELSE ReturnDfs
    /\ UNCHANGED <<entry_file, entry_exists, visited, calls, failed, included, scanned,
                   maskVars, splitVars, pipeVars>>

\* lines 114-117: the next include of the file resolves; dfs is called on it
\* (the includes re.findall found are drawn one by one as the loop gets to them)
IncludeResolved ==
    /\ wpc = "walk" /\ Top.at = "includes" /\ Top.taken < MaxIncludes
    /\ \E inc \in IncludeTexts :
        /\ resolve_path(inc) # None
        /\ included' = included \cup {resolve_path(inc)}
        /\ wstack' = Append([wstack EXCEPT ![Len(wstack)].taken = @ + 1],
                            Frame(resolve_path(inc)))
    /\ UNCHANGED <<entry_file, entry_exists, visited, wpc, calls, failed, scanned,
                   maskVars, splitVars, pipeVars>>

\* lines 118-119: the next include of the file does not resolve; a warning
IncludeUnresolved ==
    /\ wpc = "walk" /\ Top.at = "includes" /\ Top.taken < MaxIncludes
    /\ \E inc \in IncludeTexts :
        /\ resolve_path(inc) = None
        /\ wstack' = [wstack EXCEPT ![Len(wstack)].taken = @ + 1]
    /\ UNCHANGED <<entry_file, entry_exists, visited, wpc, calls, failed, included, scanned,
                   maskVars, splitVars, pipeVars>>

\* line 114: the file has no further include; dfs returns
IncludesDone ==
    /\ wpc = "walk" /\ Top.at = "includes"
    /\ scanned' = scanned \cup {Top.path}
    /\ ReturnDfs
    /\ UNCHANGED <<entry_file, entry_exists, visited, calls, failed, included,
                   maskVars, splitVars, pipeVars>>

NextWalk ==
    \/ WalkEntry
    \/ DfsEnter
    \/ ProcessCallback
    \/ FindChildren
    \/ IncludeResolved
    \/ IncludeUnresolved
    \/ IncludesDone

\* the walk is one sequential call: it takes its next step as long as it has one
SpecWalk == InitWalk /\ [][NextWalk]_vars /\ WF_vars(NextWalk)

(***************************************************************************)
(* Claims about the include walk (checked under SpecWalk).                 *)
(***************************************************************************)
Called == {calls[i] : i \in 1..Len(calls)}

\* C22, the part that holds of every state of a walk
WalkSafe ==
    /\ \A i, j \in 1..Len(calls) : i # j => calls[i] # calls[j]
    /\ calls # <<>> => calls[1] = entry_file
    /\ wpc # "raised"
    /\ wpc = "done" =>
          /\ entry_file \in Called
          /\ included \subseteq Called
          /\ \A f \in Called : Exists(f) => f \in scanned
          /\ failed \subseteq Called

\* C22: the include walk visits each file at most once - whatever the files
\* include, themselves and each other in cycles too, process_callback is
\* invoked at most once per path and first for the entry file; the walk ends,
\* and normally; and when it has ended every file an include resolved to has
\* been processed and every processed file on disk has had all its includes
\* followed, those whose callback raised like the others.
C22_WalkOnce ==
    /\ []WalkSafe
    /\ <>(wpc = "done")

\* a walk over a cycle back to the entry file has ended: the entry file's
\* callback raised, all files were processed all the same, each once
C22_Witness ==
    /\ wpc = "done"
    /\ entry_file \in failed
    /\ entry_file \in included
    /\ Len(calls) = NumFiles
    /\ scanned = Files

====
